---- MODULE Spec2Model ----
(***************************************************************************)
(* Model of the CGC certification lookup (src/Fun/CGC Comic Lookup/        *)
(* cgc_lookup.py): the heuristic extractor extract_key_values, the passive *)
(* fetcher fetch_requests, the two Playwright flows playwright_verify_flow *)
(* and fetch_playwright_direct, and the orchestrator lookup_cert; and of   *)
(* evaluate_decision of the two copies of d20_decision.py.                 *)
(*                                                                         *)
(* Python values are modelled as follows.  A dict is a function whose      *)
(* DOMAIN is its key set; None is the string "None"; an HTML text is the   *)
(* name of a page and BeautifulSoup(html) looks the page up in a table of  *)
(* abstract documents.  URLs are strings built by concatenation.           *)
(***************************************************************************)
EXTENDS Integers, Sequences, FiniteSets, TLC

VARIABLES
    pc,                    \* position of the single thread of control
    PLAYWRIGHT_AVAILABLE,  \* module flag set at import time
    cert, debug,           \* arguments of lookup_cert
    debug_dir,             \* local of lookup_cert, threaded into the flows
    result,                \* the dict lookup_cert builds and returns
    pattern_i,             \* index of the for loop over DIRECT_URL_PATTERNS
    tile_i,                \* index of the for loop over VERIFY_TILES
    page_url,              \* page.url of the open browser page
    flow_ret,              \* what the running flow hands back: url, html, raised
    browser,               \* "none", "open" or "closed": the launched session
    sessions,              \* number of browsers launched so far
    close_calls,           \* browser.close() calls on the current session
    files,                 \* names of the diagnostic files written
    only_empty_bodies,     \* history: every plain request so far got an empty body
    first_no_match,        \* history: the first tile ended without a result address
    detected_tile,         \* history: tile whose result address was detected, or 0
    diag_failure,          \* history: the diagnostic operation that has just failed
    flow_failed,           \* history: the running flow went through its handler
    portal_entry,          \* history: how the tile about to be tried was reached
    direct_end,            \* history: how the direct Playwright fetch ended
    doc, xdata, xpc,       \* extractor harness: document, bag, position
    fetch_url, response,   \* fetch harness: argument, what requests.get does
    fetched, get_calls,    \* fetch harness: value handed back, requests.get calls
    fpc,                   \* fetch harness: position
    base_roll, source,     \* decision harness: arguments of evaluate_decision
    modifier,
    outcome, outcome_d20,  \* decision harness: what each copy returns
    dpc,                   \* decision harness: position
    max_rounds,            \* scroll harness: argument of scroll_to_load_all
    round_i,               \* scroll harness: rounds of the for loop begun so far
    last_count,            \* scroll harness: local last_count
    same_count_rounds,     \* scroll harness: local same_count_rounds
    scrolls,               \* scroll harness: scroll actions performed
    recent,                \* scroll harness, history: the latest card counts
    spc                    \* scroll harness: position

lookupVars == <<pc, PLAYWRIGHT_AVAILABLE, cert, debug, debug_dir, result,
                pattern_i, tile_i, page_url, flow_ret,
                browser, sessions, close_calls, files,
                only_empty_bodies, first_no_match, detected_tile,
                diag_failure, flow_failed, portal_entry, direct_end>>
extractVars == <<doc, xdata, xpc>>
fetchVars == <<fetch_url, response, fetched, get_calls, fpc>>
decisionVars == <<base_roll, source, modifier, outcome, outcome_d20, dpc>>
scrollVars == <<max_rounds, round_i, last_count, same_count_rounds, scrolls, recent, spc>>
harnessVars == <<extractVars, fetchVars, decisionVars, scrollVars>>
vars == <<lookupVars, harnessVars>>

None == "None"

-----------------------------------------------------------------------------
(* Python dict helpers *)

EmptyDict == [k \in {} |-> k]

Put(d, k, v) == [x \in (DOMAIN d) \cup {k} |-> IF x = k THEN v ELSE d[x]]

\* bool(d) for a dict or a list
Truthy(d) == DOMAIN d # {}

-----------------------------------------------------------------------------
(* Module constants *)

VERIFY_PORTAL == "https://www.cgcgrading.com/verify"

VERIFY_TILES == <<
    [tile_text |-> "Comics",     expected_host |-> "www.cgccomics.com"],
    [tile_text |-> "Cards",      expected_host |-> "www.cgccards.com"],
    [tile_text |-> "Video Game", expected_host |-> "www.cgcvideogames.com"],
    [tile_text |-> "Home Video", expected_host |-> "www.cgchomevideo.com"] >>

\* each template is the text before and after the {cert} placeholder
DIRECT_URL_PATTERNS == <<
    [pre |-> "https://www.cgccomics.com/certlookup/",               post |-> "/"],
    [pre |-> "https://www.cgccards.com/certlookup/",                post |-> "/"],
    [pre |-> "https://www.cgcvideogames.com/cert-lookup?cert=",     post |-> ""],
    [pre |-> "https://www.cgchomevideo.com/en-US/cert-lookup?cert=", post |-> ""] >>

ERROR_MESSAGE == "Could not retrieve or parse details for this certification."

\* pattern.format(cert=cert)
format(pattern, c) == pattern.pre \o c \o pattern.post

-----------------------------------------------------------------------------
(* Abstract documents.  An element text is a raw string; an absent element *)
(* or attribute is None.                                                   *)

\* a get_text that hands the text back as it stands in the markup
get_textRaw(raw) == raw

\* Tag.get_text(" ", strip=True): surrounding whitespace is dropped
get_text(raw) ==
    CASE raw = " "       -> ""
      [] raw = " Grade " -> "Grade"
      [] raw = " 9.8 "   -> "9.8"
      [] OTHER           -> raw

\* str.startswith("og:") or str.startswith("twitter:") on the property names
\* the model uses
SocialPrefixed(prop) == prop \in {"og:title", "twitter:card"}

\* str.startswith("data:") on the image sources the model uses
DataPrefixed(src) == src \in {"data:image/png;base64,AA"}

\* x or y
Or(x, y) == IF x # None /\ x # "" THEN x ELSE y

RECURSIVE JsonLdItems(_)
\* lines 46-54: the objects appended / extended into data["json_ld"]
JsonLdItems(blocks) ==
    IF blocks = <<>> THEN <<>>
    ELSE LET b == Head(blocks)
         IN  (IF b.kind \in {"dict", "list"} THEN b.items ELSE <<>>)
             \o JsonLdItems(Tail(blocks))

\* setdefault creates the key for every block decoding to a dict or a list
JsonLdKey(blocks) == \E i \in 1..Len(blocks) : blocks[i].kind \in {"dict", "list"}

RECURSIVE MetaDict(_, _)
\* lines 55-59
MetaDict(tags, meta) ==
    IF tags = <<>> THEN meta
    ELSE LET tag  == Head(tags)
             prop == Or(tag.property, tag.name)
         IN  MetaDict(Tail(tags),
                      IF prop # None /\ prop # "" /\ SocialPrefixed(prop)
                      THEN Put(meta, prop, tag.content) ELSE meta)

RECURSIVE ZipPairs(_, _, _)
\* lines 66-70: for dt, dd in zip(dts, dds)
ZipPairs(dts, dds, details) ==
    IF dts = <<>> \/ dds = <<>> THEN details
    ELSE LET k == get_text(Head(dts))
             v == get_text(Head(dds))
         IN  ZipPairs(Tail(dts), Tail(dds),
                      IF k # "" /\ v # "" THEN Put(details, k, v) ELSE details)

\* a test that forgets to compare the two counts
DlAcceptedUnpaired(dl) == Len(dl.dts) # 0 /\ Len(dl.dds) # 0

\* line 65: the list is accepted only when labels and values pair up
DlAccepted(dl) == Len(dl.dts) # 0 /\ Len(dl.dds) # 0 /\ Len(dl.dts) = Len(dl.dds)

RECURSIVE DetailsDict(_, _)
\* lines 62-70
DetailsDict(dls, details) ==
    IF dls = <<>> THEN details
    ELSE LET dl == Head(dls)
         IN  DetailsDict(Tail(dls),
                         IF DlAccepted(dl) THEN ZipPairs(dl.dts, dl.dds, details)
                         ELSE details)

\* a test that lets wider rows through
RowAcceptedAtLeastTwo(tds) == Len(tds) >= 2

\* line 77: only rows of exactly two cells
RowAccepted(tds) == Len(tds) = 2

RECURSIVE TableDict(_, _)
\* lines 73-81, the rows of all tables in document order
TableDict(rows, table_fields) ==
    IF rows = <<>> THEN table_fields
    ELSE LET tds == Head(rows)
         IN  TableDict(Tail(rows),
                IF RowAccepted(tds)
                THEN LET k == get_text(tds[1])
                         v == get_text(tds[2])
                     IN  IF k # "" /\ v # "" THEN Put(table_fields, k, v)
                         ELSE table_fields
                ELSE table_fields)

RECURSIVE ImageList(_)
\* lines 91-96
ImageList(imgs) ==
    IF imgs = <<>> THEN <<>>
    ELSE LET img == Head(imgs)
             src == Or(img.src, img.data_src)
             alt == Or(img.alt, "")
         IN  (IF src # None /\ src # "" /\ ~DataPrefixed(src)
              THEN << [src |-> src, alt |-> alt] >> ELSE <<>>)
             \o ImageList(Tail(imgs))

\* lines 84-90: a found element is stored whatever its text is
\* (a bs4 Tag is always truthy)
ElementFound(el) == el # None

\* lines 60, 71, 82, 97: a collected mapping or list is stored only when
\* it is non-empty
StoreIf(data, key, value) == IF Truthy(value) THEN Put(data, key, value) ELSE data

StoreElement(data, key, el) ==
    IF ElementFound(el) THEN Put(data, key, get_text(el)) ELSE data

extract_key_values(soup) ==
    LET d1 == IF JsonLdKey(soup.ldjson)
              THEN Put(EmptyDict, "json_ld", JsonLdItems(soup.ldjson))
              ELSE EmptyDict
        d2 == StoreIf(d1, "meta", MetaDict(soup.meta, EmptyDict))
        d3 == StoreIf(d2, "details", DetailsDict(soup.dls, EmptyDict))
        d4 == StoreIf(d3, "table_fields", TableDict(soup.rows, EmptyDict))
        d5 == StoreElement(d4, "page_title", soup.title)
        d6 == StoreElement(d5, "h1", soup.h1)
        d7 == StoreElement(d6, "h2", soup.h2)
    IN  StoreIf(d7, "images", ImageList(soup.imgs))

-----------------------------------------------------------------------------
(* Pages the remote sites can serve, and their parsed documents *)

NoDocument == [ldjson |-> <<>>, meta |-> <<>>, dls |-> <<>>, rows |-> <<>>,
               title |-> None, h1 |-> None, h2 |-> None, imgs |-> <<>>,
               text |-> ""]

BARE_PAGE        == "<html><body><div>Access denied</div></body></html>"
EMPTY_TITLE_PAGE == "<html><head><title></title></head><body></body></html>"
DETAIL_PAGE      == "<html><head><title>Item X</title></head><body><dl><dt>Grade</dt><dd>9.8</dd></dl></body></html>"

CHALLENGE_PAGE   == "<html><head><title>Just a moment...</title></head><body></body></html>"

Pages == {BARE_PAGE, EMPTY_TITLE_PAGE, DETAIL_PAGE, CHALLENGE_PAGE}

\* BeautifulSoup(html, "lxml")
BeautifulSoup(text) ==
    CASE text = EMPTY_TITLE_PAGE -> [NoDocument EXCEPT !.title = ""]
      [] text = CHALLENGE_PAGE ->
             [NoDocument EXCEPT !.title = "Just a moment...", !.text = "Just a moment..."]
      [] text = DETAIL_PAGE ->
             [NoDocument EXCEPT !.title = "Item X",
                                !.dls = << [dts |-> <<"Grade">>, dds |-> <<"9.8">>] >>,
                                !.text = "Item X Grade 9.8"]
      [] text = BARE_PAGE -> [NoDocument EXCEPT !.text = "Access denied"]
      [] OTHER -> NoDocument

\* "if html:" on a str-or-None value
StrTruthy(s) == s # None /\ s # ""

-----------------------------------------------------------------------------
(* fetch_requests *)

\* what requests.get can do: raise a RequestException or deliver a response
Responses ==
    { [exc |-> TRUE,  status_code |-> 0,   text |-> ""] }
    \cup { [exc |-> FALSE, status_code |-> 200, text |-> t] : t \in Pages \cup {""} }
    \cup { [exc |-> FALSE, status_code |-> 403, text |-> BARE_PAGE],
           [exc |-> FALSE, status_code |-> 404, text |-> DETAIL_PAGE] }

\* a fetcher that looks at the body only
fetch_requestsAnyStatus(r) ==
    IF r.exc THEN None
    ELSE IF r.text # "" THEN r.text
    ELSE None

fetch_requests(r) ==
    IF r.exc THEN None
    ELSE IF r.status_code = 200 /\ r.text # "" THEN r.text
    ELSE None

-----------------------------------------------------------------------------
(* Browser sessions *)

\* a load that leaves the page where it was
gotoNowhere(current, url) == current

\* page.goto(url, wait_until="domcontentloaded"): the address of the page
\* once the load has completed
goto(current, url) == url

\* browser.close()
BrowserClose(b) == "closed"

\* a driver that leaves its browsers running when it stops
PlaywrightExitLeaky(b) == b

\* leaving "with sync_playwright() as p": the driver is stopped and takes
\* every browser it launched down with it
PlaywrightExit(b) == IF b = "open" THEN "closed" ELSE b

\* (debug_dir / name).write_text(...) that succeeds
Written(fs, name) == fs \cup {name}

-----------------------------------------------------------------------------
(* Addresses the portal flow can end up at *)

Landing(t) == "https://" \o VERIFY_TILES[t].expected_host \o "/"
HostResult(t, c) == "https://" \o VERIFY_TILES[t].expected_host \o "/certlookup/" \o c \o "/"
PortalResult(c) == "https://www.cgcgrading.com/CertLookup/" \o c
PortalQuery(c) == "https://www.cgcgrading.com/Cert-Lookup?cert=" \o c
PortalSearch == "https://www.cgcgrading.com/verify/search"

Tiles == 1..Len(VERIFY_TILES)

\* urlparse(page.url).netloc
urlparse_netloc(u, c) ==
    IF \E t \in Tiles : u \in {Landing(t), HostResult(t, c)}
    THEN VERIFY_TILES[CHOOSE t \in Tiles : u \in {Landing(t), HostResult(t, c)}].expected_host
    ELSE "www.cgcgrading.com"

\* "certlookup" in page.url.lower()
HasCertlookup(u, c) == u = PortalResult(c) \/ \E t \in Tiles : u = HostResult(t, c)

\* "cert-lookup" in page.url.lower()
HasCertDashLookup(u, c) == u = PortalQuery(c)

\* a test that takes every address for a result
ResultDetectedAlways(expected_host, u, c) == TRUE

\* line 186; among the hosts of the model "expected_host in url_host" is equality
ResultDetected(expected_host, u, c) ==
    \/ expected_host = urlparse_netloc(u, c)
    \/ HasCertlookup(u, c)
    \/ HasCertDashLookup(u, c)

\* where a submission can take the page
AfterSubmit(t, c) == {HostResult(t, c), PortalResult(c), PortalQuery(c), PortalSearch}

-----------------------------------------------------------------------------
(* lookup_cert: pieces of the result *)

Attempts == IF "attempts" \in DOMAIN result THEN result["attempts"] ELSE <<>>

\* the record is built but never appended
AppendAttemptDropped(res, attempt) == res

\* the record is put in front of the log: insert(0, attempt)
AppendAttemptAtFront(res, attempt) == [res EXCEPT !["attempts"] = <<attempt>> \o @]

\* result["attempts"].append(attempt)
AppendAttempt(res, attempt) == [res EXCEPT !["attempts"] = Append(@, attempt)]

\* data_found written as a constant instead of bool(data)
WithDataNotFound(attempt, data) ==
    Put(Put(attempt, "data_found", FALSE), "data", data)

\* attempt["data_found"] = bool(data); attempt["data"] = data
WithData(attempt, data) ==
    Put(Put(attempt, "data_found", Truthy(data)), "data", data)

\* no early return: the loop goes on after data was found
StopAtSuccessNever(data) == FALSE

\* "if data:" at lines 257, 277 and 292
StopAtSuccess(data) == Truthy(data)

\* result["best_url"] = url; result["data"] = data
SetSuccess(res, url, data) == Put(Put(res, "best_url", url), "data", data)

\* exhaustion that forgets the error
SetErrorOmitted(res) == res

\* result["error"] = ...
SetError(res) == Put(res, "error", ERROR_MESSAGE)

\* iteration over the templates back to front
PatternAtReversed(i) == DIRECT_URL_PATTERNS[Len(DIRECT_URL_PATTERNS) + 1 - i]

\* iteration that leaves the last template out
PatternsLeftShort(i) == i < Len(DIRECT_URL_PATTERNS)

\* for pattern in DIRECT_URL_PATTERNS: the pattern of the i-th round, and
\* whether there is an i-th round
PatternAt(i) == DIRECT_URL_PATTERNS[i]

PatternsLeft(i) == i <= Len(DIRECT_URL_PATTERNS)

\* line 250
VerifyAttempt(url, text) ==
    [via |-> "verify_portal", status |-> IF StrTruthy(text) THEN "ok" ELSE "failed",
     url |-> url]

\* line 270
RequestsAttempt(url, text) ==
    [via |-> "direct_requests", url |-> url,
     status |-> IF StrTruthy(text) THEN "ok" ELSE "blocked_or_empty"]

\* a missing document reported as "failed" like the portal attempt does
PlaywrightAttemptFailed(url, text) ==
    [via |-> "direct_playwright", url |-> url,
     status |-> IF StrTruthy(text) THEN "ok" ELSE "failed"]

\* line 285
PlaywrightAttempt(url, text) ==
    [via |-> "direct_playwright", url |-> url,
     status |-> IF StrTruthy(text) THEN "ok" ELSE "blocked_or_empty"]

-----------------------------------------------------------------------------
(* Inputs *)

Certs == {"4031234001", "77"}

\* a flow that hands back a page where it has none
NoReturnStale == [url |-> None, html |-> BARE_PAGE, raised |-> FALSE]

NoReturn == [url |-> None, html |-> None, raised |-> FALSE]

LookupInit(available, certs, debugs) ==
    /\ pc = "start"
    /\ PLAYWRIGHT_AVAILABLE \in available
    /\ cert \in certs
    /\ debug \in debugs
    /\ debug_dir = None
    /\ result = EmptyDict
    /\ pattern_i = 0
    /\ tile_i = 0
    /\ page_url = None
    /\ flow_ret = NoReturn
    /\ browser = "none"
    /\ sessions = 0
    /\ close_calls = 0
    /\ files = {}
    /\ only_empty_bodies = TRUE
    /\ first_no_match = FALSE
    /\ detected_tile = 0
    /\ diag_failure = "none"
    /\ flow_failed = FALSE
    /\ portal_entry = "none"
    /\ direct_end = "none"

\* the harnesses at rest: nothing has been handed to the function yet
ExtractIdle ==
    /\ doc = NoDocument
    /\ xdata = EmptyDict
    /\ xpc = "idle"

FetchIdle ==
    /\ fetch_url = None
    /\ response = [exc |-> TRUE, status_code |-> 0, text |-> ""]
    /\ fetched = None
    /\ get_calls = 0
    /\ fpc = "idle"

DecisionIdle ==
    /\ base_roll = 1
    /\ source = "general"
    /\ modifier = 0
    /\ outcome = EmptyDict
    /\ outcome_d20 = EmptyDict
    /\ dpc = "idle"

ScrollIdle ==
    /\ max_rounds = 0
    /\ round_i = 0
    /\ last_count = -1
    /\ same_count_rounds = 0
    /\ scrolls = 0
    /\ recent = <<>>
    /\ spc = "idle"

Init ==
    /\ LookupInit(BOOLEAN, Certs, BOOLEAN)
    /\ ExtractIdle
    /\ FetchIdle
    /\ DecisionIdle
    /\ ScrollIdle

envVars == <<PLAYWRIGHT_AVAILABLE, cert, debug>>
navVars == <<tile_i, page_url>>
sessionVars == <<browser, sessions, close_calls>>
verifyHistory == <<first_no_match, detected_tile>>
historyVars == <<only_empty_bodies, first_no_match, detected_tile>>

-----------------------------------------------------------------------------
(* lookup_cert, lines 240-245: the result is created; with debug the       *)
(* diagnostic directory is made, and a failing mkdir leaves lookup_cert    *)
(* as an exception                                                         *)
LookupStart ==
    /\ pc = "start"
    /\ result' = [cert |-> cert, attempts |-> <<>>]
    /\ IF debug
       THEN \E mkdir_ok \in BOOLEAN :
               IF mkdir_ok
               THEN /\ debug_dir' = "./cgc_debug"
                    /\ pc' = "verify_portal"
                    /\ diag_failure' = "none"
               ELSE /\ debug_dir' = debug_dir
                    /\ pc' = "raised"
                    /\ diag_failure' = "mkdir"
       ELSE debug_dir' = debug_dir /\ pc' = "verify_portal" /\ diag_failure' = "none"
    /\ flow_failed' = flow_failed
    /\ UNCHANGED <<envVars, pattern_i, navVars, flow_ret, sessionVars, files, harnessVars, historyVars>>
    /\ UNCHANGED <<portal_entry, direct_end>>

(* line 248: the portal flow is used only when Playwright was imported *)
VerifyDispatch ==
    /\ pc = "verify_portal"
    /\ IF PLAYWRIGHT_AVAILABLE
       THEN pc' = "verify_launch" /\ pattern_i' = pattern_i
       ELSE pc' = "direct" /\ pattern_i' = 1
    /\ UNCHANGED <<envVars, debug_dir, result, navVars, flow_ret, sessionVars, files, harnessVars, historyVars>>
    /\ UNCHANGED <<diag_failure, flow_failed>>
    /\ UNCHANGED <<portal_entry, direct_end>>

-----------------------------------------------------------------------------
(* playwright_verify_flow *)

(* lines 117-123: start the driver and launch the browser, outside any try *)
VerifyLaunch ==
    /\ pc = "verify_launch"
    /\ IF ~PLAYWRIGHT_AVAILABLE
       THEN /\ flow_ret' = NoReturn
            /\ pc' = "verify_record"
            /\ UNCHANGED sessionVars
       ELSE \E launched \in BOOLEAN :
               IF launched
               THEN /\ browser' = "open"
                    /\ sessions' = sessions + 1
                    /\ close_calls' = 0
                    /\ pc' = "verify_context"
                    /\ flow_ret' = flow_ret
               ELSE /\ pc' = "raised"
                    /\ flow_ret' = [NoReturn EXCEPT !.raised = TRUE]
                    /\ UNCHANGED sessionVars
    /\ UNCHANGED <<envVars, debug_dir, result, pattern_i, navVars, files, harnessVars, historyVars>>
    /\ UNCHANGED <<diag_failure, flow_failed>>
    /\ UNCHANGED <<portal_entry, direct_end>>

(* lines 124-129: new_context and new_page, still outside the try; an      *)
(* exception here leaves through the with statement only                   *)
VerifyContext ==
    /\ pc = "verify_context"
    /\ \E created \in BOOLEAN :
          IF created
          THEN pc' = "verify_goto" /\ UNCHANGED <<browser, flow_ret>>
          ELSE /\ browser' = PlaywrightExit(browser)
               /\ flow_ret' = [NoReturn EXCEPT !.raised = TRUE]
               /\ pc' = "raised"
    /\ UNCHANGED <<envVars, debug_dir, result, pattern_i, navVars, sessions,
                   close_calls, files, harnessVars, historyVars>>
    /\ UNCHANGED <<diag_failure, flow_failed>>
    /\ UNCHANGED <<portal_entry, direct_end>>

(* line 131: first load of the portal *)
VerifyGoto ==
    /\ pc = "verify_goto"
    /\ \E loaded \in BOOLEAN :
          IF loaded
          THEN /\ page_url' = goto(page_url, VERIFY_PORTAL)
               /\ tile_i' = 1
               /\ pc' = "verify_tile"
               /\ portal_entry' = "loaded"
          ELSE UNCHANGED navVars /\ pc' = "verify_except" /\ portal_entry' = "none"
    /\ UNCHANGED <<envVars, debug_dir, result, pattern_i, flow_ret, sessionVars,
                   files, harnessVars, historyVars>>
    /\ UNCHANGED <<diag_failure, flow_failed>>
    /\ direct_end' = direct_end

(* lines 133-142: next tile of the loop; a tile that is neither a link nor *)
(* a button is skipped; after the last tile the flow falls out of the try  *)
VerifyTile ==
    /\ pc = "verify_tile"
    /\ IF tile_i > Len(VERIFY_TILES)
       THEN /\ flow_ret' = NoReturn
            /\ pc' = "verify_finally"
            /\ portal_entry' = "none"
            /\ UNCHANGED navVars
       ELSE \E tile_found \in BOOLEAN :
               /\ flow_ret' = flow_ret
               /\ page_url' = page_url
               /\ IF tile_found
                  THEN pc' = "verify_click" /\ tile_i' = tile_i /\ portal_entry' = "none"
                  ELSE pc' = "verify_tile" /\ tile_i' = tile_i + 1 /\ portal_entry' = "kept"
    /\ UNCHANGED <<envVars, debug_dir, result, pattern_i, sessionVars, files, harnessVars, historyVars>>
    /\ UNCHANGED <<diag_failure, flow_failed>>
    /\ direct_end' = direct_end

(* lines 145-147: click the tile and wait for the load; a timeout of       *)
(* either is an exception of the whole flow                                *)
VerifyClick ==
    /\ pc = "verify_click"
    /\ \/ /\ \E u \in {VERIFY_PORTAL, Landing(tile_i)} : page_url' = u
          /\ pc' = "verify_input"
       \/ /\ page_url' = page_url
          /\ pc' = "verify_except"
    /\ UNCHANGED <<envVars, debug_dir, result, pattern_i, tile_i, flow_ret,
                   sessionVars, files, harnessVars, historyVars>>
    /\ UNCHANGED <<diag_failure, flow_failed>>
    /\ UNCHANGED <<portal_entry, direct_end>>

(* lines 151-167: probe the selectors; without an input go back to the     *)
(* portal and on to the next tile                                          *)
VerifyInput ==
    /\ pc = "verify_input"
    /\ \E input_found \in BOOLEAN, loaded \in BOOLEAN :
          IF input_found
          THEN pc' = "verify_fill" /\ UNCHANGED <<navVars, portal_entry>>
          ELSE IF loaded
               THEN /\ page_url' = goto(page_url, VERIFY_PORTAL)
                    /\ tile_i' = tile_i + 1
                    /\ pc' = "verify_tile"
                    /\ portal_entry' = "loaded"
               ELSE UNCHANGED <<navVars, portal_entry>> /\ pc' = "verify_except"
    /\ UNCHANGED <<envVars, debug_dir, result, pattern_i, flow_ret, sessionVars,
                   files, harnessVars, historyVars>>
    /\ UNCHANGED <<diag_failure, flow_failed>>
    /\ direct_end' = direct_end

(* lines 169-175: fill, press Enter, wait for the load; only the timeout   *)
(* of this wait is swallowed                                               *)
VerifyFill ==
    /\ pc = "verify_fill"
    /\ \/ /\ \E u \in {page_url} \cup AfterSubmit(tile_i, cert) : page_url' = u
          /\ pc' = "verify_button"
       \/ /\ page_url' = page_url
          /\ pc' = "verify_except"
    /\ UNCHANGED <<envVars, debug_dir, result, pattern_i, tile_i, flow_ret,
                   sessionVars, files, harnessVars, historyVars>>
    /\ UNCHANGED <<diag_failure, flow_failed>>
    /\ UNCHANGED <<portal_entry, direct_end>>

(* lines 178-181: click a Go/Verify button when there is one *)
VerifyButton ==
    /\ pc = "verify_button"
    /\ \/ /\ page_url' = page_url
          /\ pc' = "verify_detect"
       \/ /\ \E u \in {page_url} \cup AfterSubmit(tile_i, cert) : page_url' = u
          /\ pc' = "verify_detect"
       \/ /\ page_url' = page_url
          /\ pc' = "verify_except"
    /\ UNCHANGED <<envVars, debug_dir, result, pattern_i, tile_i, flow_ret,
                   sessionVars, files, harnessVars, historyVars>>
    /\ UNCHANGED <<diag_failure, flow_failed>>
    /\ UNCHANGED <<portal_entry, direct_end>>

(* lines 184-197: on a result address capture the content, dump it when    *)
(* debugging, close the browser and return; otherwise reload the portal    *)
(* and go on to the next tile                                              *)
VerifyDetect ==
    /\ pc = "verify_detect"
    /\ IF ResultDetected(VERIFY_TILES[tile_i].expected_host, page_url, cert)
       THEN /\ detected_tile' = tile_i
            /\ first_no_match' = first_no_match
            /\ \E content \in Pages, captured \in BOOLEAN, write_ok \in BOOLEAN :
                  IF ~captured \/ (debug_dir # None /\ ~write_ok)
                  THEN /\ pc' = "verify_except"
                       /\ diag_failure' = IF captured THEN "final_via_verify.html"
                                          ELSE "none"
                       /\ UNCHANGED <<navVars, flow_ret, browser, close_calls, files,
                                      portal_entry>>
                  ELSE /\ files' = IF debug_dir # None
                                   THEN Written(files, "final_via_verify.html") ELSE files
                       /\ diag_failure' = "none"
                       /\ browser' = BrowserClose(browser)
                       /\ close_calls' = close_calls + 1
                       /\ flow_ret' = [url |-> page_url, html |-> content, raised |-> FALSE]
                       /\ pc' = "verify_finally"
                       /\ UNCHANGED <<navVars, portal_entry>>
       ELSE /\ first_no_match' = (first_no_match \/ tile_i = 1)
            /\ detected_tile' = detected_tile
            /\ diag_failure' = "none"
            /\ \E loaded \in BOOLEAN :
                  IF loaded
                  THEN /\ page_url' = goto(page_url, VERIFY_PORTAL)
                       /\ tile_i' = tile_i + 1
                       /\ pc' = "verify_tile"
                       /\ portal_entry' = "loaded"
                  ELSE UNCHANGED <<navVars, portal_entry>> /\ pc' = "verify_except"
            /\ UNCHANGED <<flow_ret, browser, close_calls, files>>
    /\ UNCHANGED <<envVars, debug_dir, result, pattern_i, sessions, harnessVars,
                   only_empty_bodies, flow_failed>>
    /\ direct_end' = direct_end

(* lines 199-205: any exception of the try block; both dumps are inside an *)
(* inner try whose failures are dropped                                    *)
VerifyExcept ==
    /\ pc = "verify_except"
    /\ IF debug_dir # None
       THEN \E written \in {{}, {"error_verify.txt"},
                            {"error_verify.txt", "page_source_on_error.html"}} :
               files' = files \cup written
       ELSE files' = files
    /\ flow_ret' = NoReturn
    /\ pc' = "verify_finally"
    /\ UNCHANGED <<envVars, debug_dir, result, pattern_i, navVars, sessionVars, harnessVars, historyVars>>
    /\ diag_failure' = "none"
    /\ flow_failed' = TRUE
    /\ UNCHANGED <<portal_entry, direct_end>>

(* lines 206-208: finally closes the browser, the with statement ends and  *)
(* the flow returns                                                        *)
VerifyFinally ==
    /\ pc = "verify_finally"
    /\ browser' = PlaywrightExit(BrowserClose(browser))
    /\ close_calls' = close_calls + 1
    /\ tile_i' = 0
    /\ page_url' = None
    /\ pc' = "verify_record"
    /\ UNCHANGED <<envVars, debug_dir, result, pattern_i, flow_ret, sessions,
                   files, harnessVars, historyVars>>
    /\ UNCHANGED <<diag_failure, flow_failed>>
    /\ UNCHANGED <<portal_entry, direct_end>>

-----------------------------------------------------------------------------
(* lookup_cert, lines 250-263: record the portal attempt; return at once   *)
(* when its document yields data                                           *)
VerifyRecord ==
    /\ pc = "verify_record"
    /\ LET final_url == flow_ret.url
           text      == flow_ret.html
           attempt   == VerifyAttempt(final_url, text)
       IN  IF StrTruthy(text)
           THEN LET data == extract_key_values(BeautifulSoup(text))
                    res  == AppendAttempt(result, WithData(attempt, data))
                IN  IF StopAtSuccess(data)
                    THEN /\ result' = SetSuccess(res, final_url, data)
                         /\ pc' = "returned"
                         /\ pattern_i' = pattern_i
                    ELSE /\ result' = res
                         /\ pc' = "direct"
                         /\ pattern_i' = 1
           ELSE /\ result' = AppendAttempt(result, Put(attempt, "data_found", FALSE))
                /\ pc' = "direct"
                /\ pattern_i' = 1
    /\ flow_ret' = NoReturn
    /\ UNCHANGED <<envVars, debug_dir, navVars, sessionVars, files, harnessVars, historyVars>>
    /\ flow_failed' = FALSE
    /\ diag_failure' = diag_failure
    /\ UNCHANGED <<portal_entry, direct_end>>

(* lines 266-282: next direct URL, plain request first.  A document is     *)
(* recorded with its data and ends the lookup when the data is non-empty;  *)
(* without a document the bare record is appended and Playwright is tried  *)
DirectRequests ==
    /\ pc = "direct"
    /\ PatternsLeft(pattern_i)
    /\ \E r \in Responses :
       /\ only_empty_bodies' = (only_empty_bodies /\ ~r.exc /\ r.text = "")
       /\ LET url     == format(PatternAt(pattern_i), cert)
              text    == fetch_requests(r)
              attempt == RequestsAttempt(url, text)
          IN  IF StrTruthy(text)
              THEN LET data == extract_key_values(BeautifulSoup(text))
                       res  == AppendAttempt(result, WithData(attempt, data))
                   IN  IF StopAtSuccess(data)
                       THEN /\ result' = SetSuccess(res, url, data)
                            /\ pc' = "returned"
                            /\ pattern_i' = pattern_i
                       ELSE /\ result' = res
                            /\ pc' = "direct"
                            /\ pattern_i' = pattern_i + 1
              ELSE /\ result' = AppendAttempt(result, attempt)
                   /\ pc' = "direct_launch"
                   /\ pattern_i' = pattern_i
    /\ UNCHANGED <<envVars, debug_dir, navVars, flow_ret, sessionVars, files,
                   harnessVars, verifyHistory>>
    /\ UNCHANGED <<diag_failure, flow_failed>>
    /\ UNCHANGED <<portal_entry, direct_end>>

(* lines 300-301: every pattern is used up *)
Exhausted ==
    /\ pc = "direct"
    /\ ~PatternsLeft(pattern_i)
    /\ result' = SetError(result)
    /\ pc' = "returned"
    /\ UNCHANGED <<envVars, debug_dir, pattern_i, navVars, flow_ret, sessionVars,
                   files, harnessVars, historyVars>>
    /\ UNCHANGED <<diag_failure, flow_failed>>
    /\ UNCHANGED <<portal_entry, direct_end>>

-----------------------------------------------------------------------------
(* fetch_playwright_direct *)

(* lines 212-218: None without Playwright; otherwise start the driver and  *)
(* launch the browser, outside any try                                     *)
DirectLaunch ==
    /\ pc = "direct_launch"
    /\ IF ~PLAYWRIGHT_AVAILABLE
       THEN /\ flow_ret' = NoReturn
            /\ pc' = "direct_record"
            /\ direct_end' = "unavailable"
            /\ UNCHANGED sessionVars
       ELSE \E launched \in BOOLEAN :
               IF launched
               THEN /\ browser' = "open"
                    /\ sessions' = sessions + 1
                    /\ close_calls' = 0
                    /\ pc' = "direct_context"
                    /\ flow_ret' = flow_ret
                    /\ direct_end' = direct_end
               ELSE /\ pc' = "raised"
                    /\ flow_ret' = [NoReturn EXCEPT !.raised = TRUE]
                    /\ direct_end' = direct_end
                    /\ UNCHANGED sessionVars
    /\ UNCHANGED <<envVars, debug_dir, result, pattern_i, navVars, files, harnessVars, historyVars>>
    /\ UNCHANGED <<diag_failure, flow_failed>>
    /\ portal_entry' = portal_entry

(* lines 219-224: new_context and new_page, outside the try *)
DirectContext ==
    /\ pc = "direct_context"
    /\ \E created \in BOOLEAN :
          IF created
          THEN pc' = "direct_goto" /\ UNCHANGED <<browser, flow_ret>>
          ELSE /\ browser' = PlaywrightExit(browser)
               /\ flow_ret' = [NoReturn EXCEPT !.raised = TRUE]
               /\ pc' = "raised"
    /\ UNCHANGED <<envVars, debug_dir, result, pattern_i, navVars, sessions,
                   close_calls, files, harnessVars, historyVars>>
    /\ UNCHANGED <<diag_failure, flow_failed>>
    /\ UNCHANGED <<portal_entry, direct_end>>

(* lines 225-231: load the URL; then wait the fixed 600 ms, capture the    *)
(* content and dump it when debugging; any exception goes to the handler   *)
DirectGoto ==
    /\ pc = "direct_goto"
    /\ \E navigated \in BOOLEAN, captured \in BOOLEAN, content \in Pages,
          write_ok \in BOOLEAN :
          IF navigated /\ captured /\ (debug_dir = None \/ write_ok)
          THEN /\ page_url' = goto(page_url, format(PatternAt(pattern_i), cert))
               /\ files' = IF debug_dir # None
                           THEN Written(files, "final_direct.html") ELSE files
               /\ flow_ret' = [url |-> None, html |-> content, raised |-> FALSE]
               /\ pc' = "direct_finally"
               /\ diag_failure' = "none"
               /\ direct_end' = "captured"
          ELSE /\ page_url' = IF navigated
                              THEN goto(page_url, format(PatternAt(pattern_i), cert))
                              ELSE page_url
               /\ files' = files
               /\ flow_ret' = flow_ret
               /\ pc' = "direct_except"
               /\ diag_failure' = IF navigated /\ captured THEN "final_direct.html"
                                  ELSE "none"
               /\ direct_end' = IF navigated THEN "after_navigation" ELSE "navigation"
    /\ flow_failed' = flow_failed
    /\ UNCHANGED <<envVars, debug_dir, result, pattern_i, tile_i, sessionVars, harnessVars, historyVars>>
    /\ portal_entry' = portal_entry

(* lines 232-235: the handler returns None; its own dump is not guarded,   *)
(* so a failing write is a new exception that leaves the function          *)
DirectExcept ==
    /\ pc = "direct_except"
    /\ \E write_ok \in BOOLEAN :
          IF debug_dir = None \/ write_ok
          THEN /\ files' = IF debug_dir # None
                           THEN Written(files, "error_direct.txt") ELSE files
               /\ flow_ret' = NoReturn
               /\ diag_failure' = "none"
          ELSE /\ files' = files
               /\ flow_ret' = [NoReturn EXCEPT !.raised = TRUE]
               /\ diag_failure' = "error_direct.txt"
    /\ flow_failed' = TRUE
    /\ pc' = "direct_finally"
    /\ UNCHANGED <<envVars, debug_dir, result, pattern_i, navVars, sessionVars, harnessVars, historyVars>>
    /\ UNCHANGED <<portal_entry, direct_end>>

(* lines 236-237: finally closes the browser and the with statement ends;  *)
(* the function returns, or the pending exception goes on to the caller    *)
DirectFinally ==
    /\ pc = "direct_finally"
    /\ browser' = PlaywrightExit(BrowserClose(browser))
    /\ close_calls' = close_calls + 1
    /\ page_url' = None
    /\ pc' = IF flow_ret.raised THEN "raised" ELSE "direct_record"
    /\ UNCHANGED <<envVars, debug_dir, result, pattern_i, tile_i, flow_ret, sessions,
                   files, harnessVars, historyVars>>
    /\ diag_failure' = "none"
    /\ flow_failed' = flow_failed
    /\ UNCHANGED <<portal_entry, direct_end>>

(* lookup_cert, lines 285-298: record the Playwright attempt on the same   *)
(* URL; return at once when its document yields data                       *)
DirectRecord ==
    /\ pc = "direct_record"
    /\ LET url      == format(PatternAt(pattern_i), cert)
           html_pw  == flow_ret.html
           attempt2 == PlaywrightAttempt(url, html_pw)
       IN  IF StrTruthy(html_pw)
           THEN LET data == extract_key_values(BeautifulSoup(html_pw))
                    res  == AppendAttempt(result, WithData(attempt2, data))
                IN  IF StopAtSuccess(data)
                    THEN /\ result' = SetSuccess(res, url, data)
                         /\ pc' = "returned"
                         /\ pattern_i' = pattern_i
                    ELSE /\ result' = res
                         /\ pc' = "direct"
                         /\ pattern_i' = pattern_i + 1
           ELSE /\ result' = AppendAttempt(result, Put(attempt2, "data_found", FALSE))
                /\ pc' = "direct"
                /\ pattern_i' = pattern_i + 1
    /\ flow_ret' = NoReturn
    /\ UNCHANGED <<envVars, debug_dir, navVars, sessionVars, files, harnessVars, historyVars>>
    /\ flow_failed' = FALSE
    /\ diag_failure' = diag_failure
    /\ direct_end' = "none"
    /\ portal_entry' = portal_entry

-----------------------------------------------------------------------------
Next ==
    \/ LookupStart
    \/ VerifyDispatch
    \/ VerifyLaunch
    \/ VerifyContext
    \/ VerifyGoto
    \/ VerifyTile
    \/ VerifyClick
    \/ VerifyInput
    \/ VerifyFill
    \/ VerifyButton
    \/ VerifyDetect
    \/ VerifyExcept
    \/ VerifyFinally
    \/ VerifyRecord
    \/ DirectRequests
    \/ Exhausted
    \/ DirectLaunch
    \/ DirectContext
    \/ DirectGoto
    \/ DirectExcept
    \/ DirectFinally
    \/ DirectRecord

Spec == Init /\ [][Next]_vars

TypeOK ==
    /\ pc \in {"start", "verify_portal", "verify_launch", "verify_context",
               "verify_goto", "verify_tile", "verify_click", "verify_input",
               "verify_fill", "verify_button", "verify_detect", "verify_except",
               "verify_finally", "verify_record", "direct", "direct_launch",
               "direct_context", "direct_goto", "direct_except", "direct_finally",
               "direct_record", "returned", "raised"}
    /\ browser \in {"none", "open", "closed"}
    /\ pattern_i \in 0..(Len(DIRECT_URL_PATTERNS) + 1)
    /\ tile_i \in 0..(Len(VERIFY_TILES) + 1)

-----------------------------------------------------------------------------
(* The extractor on its own: extract_key_values applied to each document   *)
(* of a bounded family                                                     *)

MaxListed  == 3    \* most dt or dd elements in a dl
MaxObjects == 2    \* most entries in a JSON-LD array
MaxCells   == 3    \* most cells in a table row

LabelText(i) == CASE i = 1 -> " Grade " [] i = 2 -> "Pages" [] OTHER -> "Year"
ValueText(i) == CASE i = 1 -> " 9.8 "   [] i = 2 -> " "     [] OTHER -> "1984"

LdJsonChoices ==
    { <<>>,
      << [kind |-> "invalid", items |-> <<>>] >>,
      << [kind |-> "scalar",  items |-> <<>>] >>,
      << [kind |-> "dict",    items |-> << [type |-> "Product"] >>] >> }
    \cup { << [kind |-> "list", items |-> [i \in 1..n |-> [type |-> "Product"]]] >> :
           n \in 0..MaxObjects }

MetaChoices ==
    { <<>>,
      << [property |-> "og:title", name |-> None, content |-> "Item X"] >>,
      << [property |-> None, name |-> "viewport", content |-> "width=device-width"] >>,
      << [property |-> "", name |-> "twitter:card", content |-> None] >> }

DlChoices ==
    { <<>>,
      << [dts |-> <<" ">>, dds |-> <<"1984">>] >>,
      << [dts |-> <<"Grade", "Pages", "Year">>, dds |-> <<"9.8", "White">>],
         [dts |-> <<"Year">>, dds |-> <<"1984">>] >> }
    \cup { << [dts |-> [i \in 1..n |-> LabelText(i)],
               dds |-> [i \in 1..m |-> ValueText(i)]] >> :
           n \in 0..MaxListed, m \in 0..MaxListed }

RowChoices ==
    { <<>>,
      << <<"Grade", " ">> >>,
      << <<"Grade", "9.8", "NM/M">>, <<"Pages", "White">> >>,
      << <<"Grade", "9.0">>, <<"Grade", "9.8">> >> }
    \cup { << [i \in 1..n |-> IF i = 1 THEN "Grade" ELSE "9.8"] >> : n \in 1..MaxCells }

ImgChoices ==
    { <<>>,
      << [src |-> "/img/cover.jpg", data_src |-> None, alt |-> None] >>,
      << [src |-> "data:image/png;base64,AA", data_src |-> "/img/lazy.jpg", alt |-> "x"] >> }

\* rendered texts of pages that report a number as unknown
NotFoundTexts ==
    {"Certification not found", "CERTIFICATION NOT FOUND",
     "Sorry, the certification number was Not Found. Please try again."}

Documents ==
    { [ldjson |-> l, meta |-> m, dls |-> d, rows |-> r,
       title |-> t, h1 |-> a, h2 |-> b, imgs |-> g, text |-> ""] :
      l \in LdJsonChoices, m \in MetaChoices, d \in DlChoices, r \in RowChoices,
      t \in {None, "", "Item X"}, a \in {None, " "}, b \in {None, "Graded 9.8"},
      g \in ImgChoices }
    \cup { [NoDocument EXCEPT !.text = x, !.title = t, !.rows = r] :
           x \in NotFoundTexts, t \in {None, "Item X"}, r \in RowChoices }

ExtractInit ==
    /\ LookupInit({FALSE}, {"77"}, {FALSE})
    /\ FetchIdle
    /\ DecisionIdle
    /\ ScrollIdle
    /\ doc \in Documents
    /\ xdata = EmptyDict
    /\ xpc = "ready"

(* data = extract_key_values(soup) *)
Extract ==
    /\ xpc = "ready"
    /\ xdata' = extract_key_values(doc)
    /\ xpc' = "extracted"
    /\ UNCHANGED <<lookupVars, fetchVars, decisionVars, scrollVars, doc>>

ExtractNext == Extract

ExtractSpec == ExtractInit /\ [][ExtractNext]_vars

-----------------------------------------------------------------------------
(* The passive fetcher on its own: fetch_requests applied once to each URL *)
(* under each thing requests.get can do                                    *)

StatusCodes == {200, 201, 204, 301, 403, 404, 500, 503}

FetchResponses ==
    { [exc |-> TRUE, status_code |-> 0, text |-> ""] }
    \cup { [exc |-> FALSE, status_code |-> c, text |-> t] :
           c \in StatusCodes, t \in Pages \cup {""} }

FetchUrls ==
    { format(DIRECT_URL_PATTERNS[i], c) : i \in 1..Len(DIRECT_URL_PATTERNS), c \in Certs }

FetchInit ==
    /\ LookupInit({FALSE}, {"77"}, {FALSE})
    /\ ExtractIdle
    /\ DecisionIdle
    /\ ScrollIdle
    /\ fetch_url \in FetchUrls
    /\ response \in FetchResponses
    /\ fetched = None
    /\ get_calls = 0
    /\ fpc = "ready"

(* html = fetch_requests(url): the one requests.get of line 104, then the  *)
(* test of line 105 or the handler of line 108                             *)
Fetch ==
    /\ fpc = "ready"
    /\ get_calls' = get_calls + 1
    /\ fetched' = fetch_requests(response)
    /\ fpc' = "returned"
    /\ UNCHANGED <<lookupVars, extractVars, decisionVars, scrollVars, fetch_url, response>>

FetchNext == Fetch

FetchSpec == FetchInit /\ [][FetchNext]_vars

-----------------------------------------------------------------------------
(* The D20 decision roller: evaluate_decision of src/fun/d20_decision.py   *)
(* and of src/Fun/D20/d20_decision.py, applied to the same roll, source    *)
(* and modifier                                                            *)

Sides == 20          \* dice_roller(20)
MaxModifier == 20    \* modifiers run over -MaxModifier..MaxModifier

\* source.lower().strip() on the sources the model uses
lower_strip(s) ==
    CASE s = " Senior Leadership " -> "senior leadership"
      [] s = "SENIOR"              -> "senior"
      [] s = "Executive "          -> "executive"
      [] s = " Analyst"            -> "analyst"
      [] OTHER                     -> s

\* the set literal of the membership test
SENIOR_SOURCES == {"senior leadership", "senior", "exec", "executive"}

Sources ==
    {"senior leadership", " Senior Leadership ", "SENIOR", "exec", "Executive ",
     "analyst", " Analyst", "general", "senior analyst"}

\* datetime.now(timezone.utc).isoformat()
Clock == {"2026-01-01T00:00:00+00:00", "2026-01-01T00:00:01+00:00"}

\* the total is compared before the natural roll
evaluate_decisionTotalFirst(roll, src, mod) ==
    LET bumped == IF lower_strip(src) \in SENIOR_SOURCES THEN mod + 3 ELSE mod
        total  == roll + bumped
        branch == IF total >= 20 \/ roll = 20 THEN "brilliant"
                  ELSE IF roll = 1 THEN "never"
                  ELSE IF total <= 10 THEN "failure"
                  ELSE "success"
    IN  [source |-> src, base_roll |-> roll, modifier |-> bumped, total |-> total,
         category |-> branch, message |-> branch]

\* src/fun/d20_decision.py, lines 28-61; the timestamp is put in by Evaluate,
\* and the dash of the messages is written as a hyphen
evaluate_decision(roll, src, mod) ==
    LET bumped == IF lower_strip(src) \in SENIOR_SOURCES THEN mod + 3 ELSE mod
        total  == roll + bumped
        branch == IF roll = 1 THEN "never"
                  ELSE IF roll = 20 \/ total >= 20 THEN "brilliant"
                  ELSE IF total <= 10 THEN "failure"
                  ELSE "success"
        text   == CASE branch = "never"     -> "NEVER take that advice."
                    [] branch = "brilliant" -> "Brilliant idea - full steam ahead!"
                    [] branch = "failure"   -> "Decision failed - reject the idea."
                    [] OTHER                -> "Decision successful - proceed with caution."
    IN  [source |-> src, base_roll |-> roll, modifier |-> bumped, total |-> total,
         category |-> branch, message |-> text]

\* src/Fun/D20/d20_decision.py, lines 24-54
evaluate_decision_D20(roll, src, mod) ==
    LET bumped == IF lower_strip(src) \in SENIOR_SOURCES THEN mod + 3 ELSE mod
        total  == roll + bumped
        branch == IF roll = 1 THEN "never"
                  ELSE IF roll = 20 \/ total >= 20 THEN "brilliant"
                  ELSE IF total <= 10 THEN "failure"
                  ELSE "success"
        text   == CASE branch = "never"     -> "Never Taking Your Advice, Again!"
                    [] branch = "brilliant" -> "Natty 20, Lets GO!!!"
                    [] branch = "failure"   -> "Let's try a different idea."
                    [] OTHER                -> "Let's roll with it."
    IN  [source |-> src, base_roll |-> roll, modifier |-> bumped, total |-> total,
         category |-> branch, message |-> text]

DecisionInit ==
    /\ LookupInit({FALSE}, {"77"}, {FALSE})
    /\ ExtractIdle
    /\ FetchIdle
    /\ ScrollIdle
    /\ base_roll \in 1..Sides
    /\ source \in Sources
    /\ modifier \in (-MaxModifier)..MaxModifier
    /\ outcome = EmptyDict
    /\ outcome_d20 = EmptyDict
    /\ dpc = "ready"

(* result = evaluate_decision(roll, source, modifier), once in each copy *)
Evaluate ==
    /\ dpc = "ready"
    /\ \E now \in Clock, now_d20 \in Clock :
          /\ outcome' = Put(evaluate_decision(base_roll, source, modifier), "timestamp", now)
          /\ outcome_d20' = Put(evaluate_decision_D20(base_roll, source, modifier),
                                "timestamp", now_d20)
    /\ dpc' = "evaluated"
    /\ UNCHANGED <<lookupVars, extractVars, fetchVars, scrollVars, base_roll, source, modifier>>

DecisionNext == Evaluate

DecisionSpec == DecisionInit /\ [][DecisionNext]_vars

-----------------------------------------------------------------------------
(* The listing scroller: scroll_to_load_all of                             *)
(* src/Fun/VA_AssumableLoan_Finder/assumFinder.py, for every max_rounds up *)
(* to a bound and every sequence of card counts the page can report        *)

MaxRounds == 6    \* largest max_rounds handed to the function
MaxCards  == 2    \* largest number of cards the page reports

\* a test that never sees the listing settle
StopEarlyNever(same) == FALSE

\* line 64: if same_count_rounds >= 3: break
StopEarly(same) == same >= 3

\* the card counts of the latest four rounds
Latest(counts, count) ==
    LET all == Append(counts, count)
    IN  IF Len(all) > 4 THEN Tail(all) ELSE all

ScrollInit ==
    /\ LookupInit({FALSE}, {"77"}, {FALSE})
    /\ ExtractIdle
    /\ FetchIdle
    /\ DecisionIdle
    /\ max_rounds \in 0..MaxRounds
    /\ round_i = 0
    /\ last_count = -1
    /\ same_count_rounds = 0
    /\ scrolls = 0
    /\ recent = <<>>
    /\ spc = "loop"

(* lines 54-78: one round of the for loop.  The cards are counted and the  *)
(* counters updated; the loop is left when the count has settled;          *)
(* otherwise the pane, or failing that the window, is scrolled once (which *)
(* may raise) and the function sleeps                                      *)
ScrollRound ==
    /\ spc = "loop"
    /\ round_i < max_rounds
    /\ \E count \in 0..MaxCards, scrolled \in BOOLEAN :
          LET same == IF count = last_count THEN same_count_rounds + 1 ELSE 0
          IN  /\ round_i' = round_i + 1
              /\ same_count_rounds' = same
              /\ last_count' = count
              /\ recent' = Latest(recent, count)
              /\ IF StopEarly(same)
                 THEN spc' = "returned" /\ scrolls' = scrolls
                 ELSE IF scrolled
                      THEN spc' = "loop" /\ scrolls' = scrolls + 1
                      ELSE spc' = "raised" /\ scrolls' = scrolls
    /\ UNCHANGED <<lookupVars, extractVars, fetchVars, decisionVars, max_rounds>>

(* line 54: range(max_rounds) is used up *)
ScrollEnd ==
    /\ spc = "loop"
    /\ round_i >= max_rounds
    /\ spc' = "returned"
    /\ UNCHANGED <<lookupVars, extractVars, fetchVars, decisionVars, max_rounds,
                   round_i, last_count, same_count_rounds, scrolls, recent>>

ScrollNext == ScrollRound \/ ScrollEnd

ScrollSpec == ScrollInit /\ [][ScrollNext]_vars

\* the function is the only thread: it keeps running while it can
ScrollFairSpec == ScrollSpec /\ WF_vars(ScrollNext)

-----------------------------------------------------------------------------
(* Properties of lookup_cert *)

N == Len(DIRECT_URL_PATTERNS)

Returned == pc = "returned"

HasData  == "data" \in DOMAIN result
HasError == "error" \in DOMAIN result

\* the record says data was found
DataFoundTrue(a) == "data_found" \in DOMAIN a /\ a["data_found"]

\* positions inside one of the two Playwright flows, after the launch
FlowPositions ==
    {"verify_context", "verify_goto", "verify_tile", "verify_click", "verify_input",
     "verify_fill", "verify_button", "verify_detect", "verify_except", "verify_finally",
     "direct_context", "direct_goto", "direct_except", "direct_finally"}

\* positions of lookup_cert after the portal attempt was recorded
AfterVerifyRecord ==
    {"direct", "direct_launch", "direct_context", "direct_goto", "direct_except",
     "direct_finally", "direct_record", "returned", "raised"}

\* C1: a result that lookup_cert returns has exactly one of the keys "data"
\* and "error" - never both, never neither.
C1_ExactlyOneOfDataError ==
    Returned => ((HasData /\ ~HasError) \/ (~HasData /\ HasError))

C1_Witness == Returned /\ HasError /\ ~HasData /\ Len(Attempts) > 1

\* C2: a record with data_found = TRUE is the last record of the log, the
\* lookup has returned, and best_url and data are that record's url and data;
\* conversely a result with data ends in such a record.
C2_StopsAtFirstSuccess ==
    /\ \A k \in 1..Len(Attempts) :
          DataFoundTrue(Attempts[k]) =>
             /\ k = Len(Attempts)
             /\ Returned
             /\ HasData
             /\ result["best_url"] = Attempts[k]["url"]
             /\ result["data"] = Attempts[k]["data"]
    /\ HasData => Len(Attempts) > 0 /\ DataFoundTrue(Attempts[Len(Attempts)])

C2_Witness ==
    /\ Returned /\ HasData
    /\ Len(Attempts) >= 3
    /\ DataFoundTrue(Attempts[Len(Attempts)])
    /\ Attempts[Len(Attempts)]["via"] = "direct_playwright"

\* the url of each template for each certification number
TemplateUrl == [c \in Certs |-> [i \in 1..N |-> format(DIRECT_URL_PATTERNS[i], c)]]

\* rank of a record in the fixed order: portal, then for template 1..N the
\* plain request followed by the Playwright fetch; 0 - 1 for a foreign url
Rank(a) ==
    IF a["via"] = "verify_portal" THEN 0
    ELSE LET hits == {i \in 1..N : TemplateUrl[cert][i] = a["url"]}
         IN  IF hits = {} THEN 0 - 1
             ELSE LET i == CHOOSE j \in hits : TRUE
                  IN  IF a["via"] = "direct_requests" THEN 2 * i - 1 ELSE 2 * i

\* C3: the log follows one fixed order determined by the environment and the
\* outcomes only: the portal record exists exactly when Playwright is
\* available and is then the first record, the ranks increase along the log
\* (so all records of one template precede those of the next, in template
\* order), no template is skipped, and a Playwright record directly follows
\* the plain-request record of the same url, which found no document.
C3_FixedStrategyOrder ==
    /\ Len(Attempts) > 0 =>
          LET first == Rank(Attempts[1])
          IN  /\ first \in {0, 1}
              /\ pc \in AfterVerifyRecord => (first = 0 <=> PLAYWRIGHT_AVAILABLE)
    /\ \A k \in 2..Len(Attempts) :
          LET r == Rank(Attempts[k])
              q == Rank(Attempts[k - 1])
          IN  /\ q >= 0
              /\ q < r
              /\ r % 2 = 1 => q \in {r - 1, r - 2}
              /\ r % 2 = 0 =>
                    (q = r - 1 /\ Attempts[k - 1]["status"] = "blocked_or_empty")

C3_Witness ==
    /\ Returned
    /\ Len(Attempts) >= 6
    /\ Attempts[1]["via"] = "verify_portal"
    /\ \E k \in 2..Len(Attempts) : Attempts[k]["via"] = "direct_playwright"
    /\ Attempts[Len(Attempts)]["url"] = format(DIRECT_URL_PATTERNS[N], cert)

\* C4: with at least one strategy configured (a direct template, or the portal
\* flow available) a returned result has a non-empty log, also when every
\* strategy failed.
C4_AttemptsNeverEmpty ==
    (Returned /\ (N > 0 \/ PLAYWRIGHT_AVAILABLE)) => Len(Attempts) > 0

C4_Witness ==
    /\ Returned /\ HasError
    /\ Len(Attempts) > 0
    /\ \A k \in 1..Len(Attempts) : ~DataFoundTrue(Attempts[k])

\* C5: lookup_cert never leaves through an exception.
C5_NeverRaises == pc # "raised"

\* C6: a launched browser is open only inside the flow that launched it; it is
\* released whenever control is with lookup_cert, when lookup_cert has
\* returned, and when an exception has left the flow.
C6_SessionReleased == browser = "open" => pc \in FlowPositions

\* an exception of new_context / new_page: no close call was made, the browser
\* went down with the driver
C6_Witness ==
    /\ pc = "raised"
    /\ sessions > 0
    /\ close_calls = 0
    /\ browser = "closed"

\* the situation of C7: no Playwright, and every plain request of the
\* finished lookup was answered with an empty body
AllBodiesEmpty == Returned /\ ~PLAYWRIGHT_AVAILABLE /\ only_empty_bodies

\* C7 as claimed: in that situation the error is set and the log has one
\* record per direct template, all blocked_or_empty.
C7_OneRecordPerCandidate ==
    AllBodiesEmpty =>
       /\ HasError
       /\ Len(Attempts) = N
       /\ \A k \in 1..Len(Attempts) : Attempts[k]["status"] = "blocked_or_empty"

\* C7 amended: in that situation the error is set and the log has two records
\* per direct template, the plain request and then the Playwright fetch of
\* the same url, all blocked_or_empty.
C7_TwoRecordsPerCandidate ==
    AllBodiesEmpty =>
       /\ HasError
       /\ Len(Attempts) = 2 * N
       /\ \A i \in 1..N :
             /\ Attempts[2 * i - 1]["via"] = "direct_requests"
             /\ Attempts[2 * i]["via"] = "direct_playwright"
             /\ Attempts[2 * i - 1]["url"] = format(DIRECT_URL_PATTERNS[i], cert)
             /\ Attempts[2 * i]["url"] = format(DIRECT_URL_PATTERNS[i], cert)
       /\ \A k \in 1..Len(Attempts) : Attempts[k]["status"] = "blocked_or_empty"

C7_Witness == AllBodiesEmpty /\ Len(Attempts) = 8

\* the situation of C8: the first tile ended in NoMatch and the result
\* address was detected on the second
SecondTileDetected == first_no_match /\ detected_tile = 2

\* the log is the single successful portal record
OnlyPortalSuccess ==
    /\ Len(Attempts) = 1
    /\ Attempts[1]["via"] = "verify_portal"
    /\ DataFoundTrue(Attempts[1])

\* C8 as claimed: once the portal flow of that situation is over, lookup_cert
\* has returned with the single successful portal record and is at no direct
\* attempt.
C8_SecondTileEndsLookup ==
    (SecondTileDetected /\ pc \in AfterVerifyRecord) => (Returned /\ OnlyPortalSuccess)

\* C8 amended: when in that situation the flow hands back a captured document
\* whose extraction is non-empty, recording it ends the lookup with the single
\* successful portal record; no direct attempt is made.
C8_SecondTileWithDataEndsLookup ==
    [][ ( /\ pc = "verify_record"
          /\ SecondTileDetected
          /\ StrTruthy(flow_ret.html)
          /\ Truthy(extract_key_values(BeautifulSoup(flow_ret.html))) )
        => ( /\ pc' = "returned"
             /\ Len(result'["attempts"]) = 1
             /\ result'["attempts"][1]["via"] = "verify_portal"
             /\ DataFoundTrue(result'["attempts"][1])
             /\ "data" \in DOMAIN result' ) ]_vars

C8_Witness == SecondTileDetected /\ Returned /\ OnlyPortalSuccess

\* C9: a result with the error is a returned one, the message is the fixed
\* text, the portal flow was tried when available, every direct template had
\* at least its plain request, and no record found data.
C9_ErrorOnlyOnExhaustion ==
    HasError =>
       /\ Returned
       /\ ~HasData
       /\ result["error"] = ERROR_MESSAGE
       /\ PLAYWRIGHT_AVAILABLE =>
             (Len(Attempts) > 0 /\ Attempts[1]["via"] = "verify_portal")
       /\ \A i \in 1..N : \E k \in 1..Len(Attempts) :
             /\ Attempts[k]["via"] = "direct_requests"
             /\ Attempts[k]["url"] = format(DIRECT_URL_PATTERNS[i], cert)
       /\ \A k \in 1..Len(Attempts) : ~DataFoundTrue(Attempts[k])

C9_Witness ==
    /\ HasError
    /\ PLAYWRIGHT_AVAILABLE
    /\ Len(Attempts) = 1 + 2 * N

\* C15: a failing diagnostic operation changes nothing of the lookup.  When
\* making the directory fails the lookup goes on; when the dump of a captured
\* document fails the flow still hands the document back; when the dump of
\* an error fails the flow still returns None instead of raising.
C15_DiagnosticsHaveNoEffect ==
    /\ diag_failure = "mkdir" => pc # "raised"
    /\ diag_failure = "final_via_verify.html" =>
          (pc = "verify_finally" /\ StrTruthy(flow_ret.html))
    /\ diag_failure = "final_direct.html" =>
          (pc = "direct_finally" /\ StrTruthy(flow_ret.html))
    /\ diag_failure = "error_direct.txt" => ~flow_ret.raised

\* the lookup has left the candidate of record k behind
MovedPast(k) == k < Len(Attempts) \/ pc \in {"direct", "returned"}

\* C17: every plain-request record that did not find data is followed, before
\* the lookup moves on, by the Playwright record of the same URL, and every
\* Playwright record of a direct URL directly follows the plain-request
\* record of that URL.
C17_RenderedFallbackAfterPassive ==
    \A k \in 1..Len(Attempts) :
       /\ ( /\ Attempts[k]["via"] = "direct_requests"
            /\ ~DataFoundTrue(Attempts[k])
            /\ MovedPast(k) )
          => ( /\ k < Len(Attempts)
               /\ Attempts[k + 1]["via"] = "direct_playwright"
               /\ Attempts[k + 1]["url"] = Attempts[k]["url"] )
       /\ Attempts[k]["via"] = "direct_playwright"
          => ( /\ k > 1
               /\ Attempts[k - 1]["via"] = "direct_requests"
               /\ Attempts[k - 1]["url"] = Attempts[k]["url"] )

\* the statuses a record may carry
StatusSet == {"ok", "blocked_or_empty", "failed", "skipped"}

\* C18: every record of the log has "via", a "status" of the status set and
\* a boolean "data_found", and "data_found" is true only with status "ok".
C18_RecordsWellFormed ==
    \A k \in 1..Len(Attempts) :
       LET a == Attempts[k]
       IN  /\ "via" \in DOMAIN a
           /\ "status" \in DOMAIN a
           /\ a["status"] \in StatusSet
           /\ "data_found" \in DOMAIN a
           /\ a["data_found"] \in BOOLEAN
           /\ a["data_found"] => a["status"] = "ok"

\* C19: the record appended for a flow that went through its exception
\* handler has status "failed", for the direct Playwright fetch as for the
\* portal flow, and a record with status "blocked_or_empty" is appended
\* only for a flow that did not.
C19_FailedFlowRecordedFailed ==
    [][ (pc \in {"verify_record", "direct_record"} /\ pc' # pc) =>
           LET log      == result'["attempts"]
               appended == log[Len(log)]
           IN  /\ flow_failed => appended["status"] = "failed"
               /\ appended["status"] = "blocked_or_empty" => ~flow_failed ]_vars

\* the log of a result, empty before the result is created
AttemptsOf(res) == IF "attempts" \in DOMAIN res THEN res["attempts"] ELSE <<>>

\* C20: a step leaves the log as it is or extends it by one record at its
\* end; the records already in it stay as they are.
C20_AttemptsAppendOnly ==
    [][ LET old == AttemptsOf(result)
            new == AttemptsOf(result')
        IN  \/ new = old
            \/ /\ Len(new) = Len(old) + 1
               /\ SubSeq(new, 1, Len(old)) = old ]_vars

C20_Witness ==
    /\ Returned
    /\ HasData
    /\ Len(Attempts) = 1 + 2 * N
    /\ Attempts[1]["via"] = "verify_portal"
    /\ DataFoundTrue(Attempts[Len(Attempts)])

-----------------------------------------------------------------------------
(* Properties of playwright_verify_flow and fetch_playwright_direct *)

\* the flow is about to look for a tile of the list
AttemptBegins == pc = "verify_tile" /\ tile_i \in Tiles

\* C21 as claimed: every category attempt begins right after a load of the
\* portal, with the page at the portal.
C21_EveryAttemptReloadsPortal ==
    AttemptBegins => (portal_entry = "loaded" /\ page_url = VERIFY_PORTAL)

\* C21 amended: every category attempt begins with the page at the portal.
\* The first attempt, and an attempt after one that ended without an input
\* or without a result address, begin right after a load of the portal; an
\* attempt after one whose tile was not found begins without a new load, on
\* the portal page the skipped attempt left untouched.
C21_EveryAttemptBeginsAtPortal ==
    [][ (pc' = "verify_tile" /\ tile_i' \in Tiles) =>
           /\ page_url' = VERIFY_PORTAL
           /\ pc \in {"verify_goto", "verify_input", "verify_detect"} =>
                 portal_entry' = "loaded"
           /\ pc = "verify_tile" =>
                 (portal_entry' = "kept" /\ page_url = VERIFY_PORTAL /\ tile_i' = tile_i + 1)
           /\ pc \in {"verify_goto", "verify_input", "verify_detect", "verify_tile"} ]_vars

C21_Witness ==
    /\ AttemptBegins
    /\ tile_i = 3
    /\ portal_entry = "kept"
    /\ first_no_match
    /\ page_url = VERIFY_PORTAL

\* C22: once the category attempts have begun, the flow is on its way out
\* with nothing to return only after every tile of the list was tried.
C22_NullOnlyAfterEveryTile ==
    (pc = "verify_finally" /\ flow_ret.html = None /\ tile_i >= 1) =>
       tile_i > Len(VERIFY_TILES)

\* the address is on the host of tile t or has a detail-page path fragment
AddressMatches(t, u, c) ==
    \/ u = Landing(t)
    \/ \E x \in Tiles : u = HostResult(x, c)
    \/ u \in {PortalResult(c), PortalQuery(c)}

\* C23: within a category attempt the tile is clicked from the portal page,
\* the input is probed only after the click, the identifier is filled and
\* Enter pressed only after an input was located, the button is looked for
\* only after that, the address is inspected only after the button step,
\* and content is captured and handed back only from there and only when
\* the address matches.
C23_AttemptOrder ==
    [][ /\ (pc' = "verify_click" /\ pc' # pc) =>
              (pc = "verify_tile" /\ page_url = VERIFY_PORTAL)
        /\ (pc' = "verify_input" /\ pc' # pc) => pc = "verify_click"
        /\ (pc' = "verify_fill" /\ pc' # pc) => pc = "verify_input"
        /\ (pc' = "verify_button" /\ pc' # pc) => pc = "verify_fill"
        /\ (pc' = "verify_detect" /\ pc' # pc) => pc = "verify_button"
        /\ (pc' = "verify_finally" /\ flow_ret'.html # None) =>
              /\ pc = "verify_detect"
              /\ AddressMatches(tile_i, page_url, cert)
              /\ flow_ret'.url = page_url ]_vars

C23_Witness ==
    /\ pc = "verify_finally"
    /\ flow_ret.html # None
    /\ detected_tile = 2
    /\ tile_i = 2
    /\ page_url = PortalQuery(cert)

\* C24 as claimed: the direct Playwright fetch hands back None exactly when
\* the navigation itself threw.
C24_NullOnlyOnNavigationFailure ==
    pc = "direct_record" => (flow_ret.html = None <=> direct_end = "navigation")

\* C24 amended: the fetch hands back None exactly when Playwright is not
\* available, or the navigation threw, or a step after the navigation (the
\* wait, reading the content, writing the dump) threw; when all of them
\* completed it hands back the content of the page, whatever page it is.
C24_NullOnUnavailableOrException ==
    pc = "direct_record" =>
       /\ flow_ret.html = None <=>
             direct_end \in {"unavailable", "navigation", "after_navigation"}
       /\ direct_end = "unavailable" <=> ~PLAYWRIGHT_AVAILABLE
       /\ direct_end \in {"navigation", "after_navigation"} <=> flow_failed
       /\ direct_end = "captured" => flow_ret.html \in Pages

C24_Witness ==
    /\ pc = "direct_record"
    /\ direct_end = "captured"
    /\ flow_ret.html = BARE_PAGE

\* the title a challenge page shows while the challenge has not cleared
INTERSTITIAL_TITLE == "Just a moment..."

\* C25: the direct Playwright fetch does not capture a page whose title is
\* still the challenge placeholder.  (The fetch waits 600 ms once and polls
\* nothing, so no maximum wait has elapsed when it captures.)
C25_CaptureAfterReadiness ==
    (pc = "direct_finally" /\ direct_end = "captured") =>
       BeautifulSoup(flow_ret.html).title # INTERSTITIAL_TITLE

\* C27: browser.close() is called at most once on a session, on the success
\* return of the portal flow as on every other way out.
C27_ClosedExactlyOnce == close_calls <= 1

-----------------------------------------------------------------------------
(* Properties of extract_key_values *)

\* the field stored under key k is a non-empty text, list or mapping
FieldNonEmpty(d, k) ==
    IF k \in {"page_title", "h1", "h2"} THEN d[k] # "" ELSE Truthy(d[k])

\* C10: the extracted bag is truthy exactly when some field of it is
\* non-empty.
C10_TruthyIffNonEmptyField ==
    xpc = "extracted" =>
       (Truthy(xdata) <=> \E k \in DOMAIN xdata : FieldNonEmpty(xdata, k))

\* the mapping stored under key, empty when the key is absent
FieldOf(d, key) == IF key \in DOMAIN d THEN d[key] ELSE EmptyDict

\* a label/value list whose labels and values pair up
Paired(dl) == Len(dl.dts) = Len(dl.dds) /\ Len(dl.dts) > 0

\* C11: a label/value list whose counts differ, or that has no labels or no
\* values, contributes nothing to "details": the mapping is the one the
\* paired lists of the document give on their own, and each of its entries
\* is a label and the value at the same place of a paired list.
C11_UnpairedListContributesNothing ==
    xpc = "extracted" =>
       LET details == FieldOf(xdata, "details")
           paired  == [doc EXCEPT !.dls = SelectSeq(doc.dls, Paired)]
       IN  /\ details = FieldOf(extract_key_values(paired), "details")
           /\ \A k \in DOMAIN details :
                 \E i \in 1..Len(doc.dls) :
                    /\ Paired(doc.dls[i])
                    /\ \E j \in 1..Len(doc.dls[i].dts) :
                          /\ get_text(doc.dls[i].dts[j]) = k
                          /\ get_text(doc.dls[i].dds[j]) = details[k]

C11_Witness ==
    /\ xpc = "extracted"
    /\ \E i \in 1..Len(doc.dls) :
          Len(doc.dls[i].dts) = 3 /\ Len(doc.dls[i].dds) = 2
    /\ "details" \in DOMAIN xdata
    /\ DOMAIN xdata["details"] = {"Year"}

\* a cell text that is empty once the surrounding whitespace is dropped
Blank(raw) == raw \in {"", " "}

\* the row is a label/value row: two cells
TwoCells(tds) == Len(tds) = 2

\* no row with another number of cells contributes: the mapping is the one
\* the two-cell rows give on their own, and each entry is such a row
OnlyTwoCellRows ==
    LET table_fields == FieldOf(xdata, "table_fields")
        two          == [doc EXCEPT !.rows = SelectSeq(doc.rows, TwoCells)]
    IN  /\ table_fields = FieldOf(extract_key_values(two), "table_fields")
        /\ \A k \in DOMAIN table_fields :
              \E i \in 1..Len(doc.rows) :
                 /\ TwoCells(doc.rows[i])
                 /\ get_text(doc.rows[i][1]) = k
                 /\ get_text(doc.rows[i][2]) = table_fields[k]

\* C12 as claimed: every row of exactly two cells has an entry under its
\* label in "table_fields", and no row with another number of cells
\* contributes.
C12_EveryTwoCellRowContributes ==
    xpc = "extracted" =>
       /\ \A i \in 1..Len(doc.rows) :
             TwoCells(doc.rows[i]) =>
                get_text(doc.rows[i][1]) \in DOMAIN FieldOf(xdata, "table_fields")
       /\ OnlyTwoCellRows

\* C12 amended: every row of exactly two cells whose label and value texts
\* are both non-empty has an entry under its label, holding the value of the
\* last such row with that label; no row with another number of cells
\* contributes.
C12_NonBlankTwoCellRowContributes ==
    xpc = "extracted" =>
       /\ \A i \in 1..Len(doc.rows) :
             LET tds == doc.rows[i]
             IN  (TwoCells(tds) /\ ~Blank(tds[1]) /\ ~Blank(tds[2])) =>
                    /\ get_text(tds[1]) \in DOMAIN FieldOf(xdata, "table_fields")
                    /\ \/ xdata["table_fields"][get_text(tds[1])] = get_text(tds[2])
                       \/ \E j \in (i + 1)..Len(doc.rows) :
                             /\ TwoCells(doc.rows[j])
                             /\ get_text(doc.rows[j][1]) = get_text(tds[1])
                             /\ ~Blank(doc.rows[j][2])
       /\ OnlyTwoCellRows

C12_Witness ==
    /\ xpc = "extracted"
    /\ \E i, j \in 1..Len(doc.rows) : Len(doc.rows[i]) = 3 /\ Len(doc.rows[j]) = 2
    /\ "table_fields" \in DOMAIN xdata
    /\ DOMAIN xdata["table_fields"] = {"Pages"}
    /\ xdata["table_fields"]["Pages"] = "White"

\* the document has a title and one label/value list of one pair with a
\* label and a value, and nothing else
OnlyTitleAndOnePair ==
    /\ doc.ldjson = <<>> /\ doc.meta = <<>> /\ doc.rows = <<>> /\ doc.imgs = <<>>
    /\ doc.h1 = None /\ doc.h2 = None
    /\ doc.title # None
    /\ Len(doc.dls) = 1
    /\ Len(doc.dls[1].dts) = 1 /\ Len(doc.dls[1].dds) = 1
    /\ ~Blank(doc.dls[1].dts[1]) /\ ~Blank(doc.dls[1].dds[1])

\* the scenario: title "Item X", label " Grade ", value " 9.8 "
ItemXGraded ==
    /\ OnlyTitleAndOnePair
    /\ doc.title = "Item X"
    /\ doc.dls[1].dts[1] = " Grade "
    /\ doc.dls[1].dds[1] = " 9.8 "

\* C13: for a document with only a title and one label/value pair the bag
\* has exactly the two keys "page_title" and "details", "details" holds the
\* single pair, and the bag is truthy; for the scenario it is
\* {page_title: "Item X", details: {Grade: "9.8"}}.
C13_TitleAndOnePair ==
    (xpc = "extracted" /\ OnlyTitleAndOnePair) =>
       /\ DOMAIN xdata = {"page_title", "details"}
       /\ Cardinality(DOMAIN xdata["details"]) = 1
       /\ Truthy(xdata)
       /\ ItemXGraded =>
             /\ xdata["page_title"] = "Item X"
             /\ DOMAIN xdata["details"] = {"Grade"}
             /\ xdata["details"]["Grade"] = "9.8"

C13_Witness ==
    /\ xpc = "extracted"
    /\ ItemXGraded
    /\ xdata["details"]["Grade"] = "9.8"

-----------------------------------------------------------------------------
(* Properties of fetch_requests *)

\* the status the fetcher takes for success
SuccessStatus(r) == r.status_code = 200

-----------------------------------------------------------------------------
(* Properties of evaluate_decision *)

Categories == {"never", "brilliant", "failure", "success"}

\* the rule table of the module docstring
RuleCategory(roll, total) ==
    CASE roll = 1                    -> "never"
      [] roll = 20                   -> "brilliant"
      [] roll \notin {1, 20} /\ total >= 20 -> "brilliant"
      [] roll \notin {1, 20} /\ total <= 10 -> "failure"
      [] OTHER                       -> "success"

\* both copies follow the rule table for the total that bonus gives, return
\* one of the four categories, and agree on category and total
FollowsRuleTable(bonus) ==
    LET total == base_roll + modifier + bonus
    IN  /\ outcome["total"] = total
        /\ outcome["category"] = RuleCategory(base_roll, total)
        /\ outcome["category"] \in Categories
        /\ outcome_d20["total"] = outcome["total"]
        /\ outcome_d20["category"] = outcome["category"]

\* C16 as claimed: the total is roll + modifier + 3 when the trimmed,
\* lower-cased source is "senior leadership" and roll + modifier otherwise;
\* the category follows the rule table and both copies agree.
C16_RuleTable ==
    dpc = "evaluated" =>
       FollowsRuleTable(IF lower_strip(source) = "senior leadership" THEN 3 ELSE 0)

\* the spellings that count as senior leadership
SeniorSpellings == {"senior leadership", "senior", "exec", "executive"}

\* C16 amended: the +3 goes to every source that, trimmed and lower-cased,
\* is one of "senior leadership", "senior", "exec", "executive"; otherwise
\* as claimed.
C16_RuleTableWithAliases ==
    dpc = "evaluated" =>
       FollowsRuleTable(IF lower_strip(source) \in SeniorSpellings THEN 3 ELSE 0)

C16_Witness ==
    /\ dpc = "evaluated"
    /\ source = "Executive "
    /\ base_roll = 20
    /\ outcome["total"] <= 10
    /\ outcome["category"] = "brilliant"
    /\ outcome_d20["category"] = "brilliant"

\* "not found" in text.lower(), on the texts the model uses
HasNotFoundPhrase(text) == text \in NotFoundTexts

\* C26: a document whose rendered text has the not-found phrase, in any
\* letter case, gets a "notices" entry and so a truthy bag.
C26_NotFoundNotice ==
    (xpc = "extracted" /\ HasNotFoundPhrase(doc.text)) =>
       /\ "notices" \in DOMAIN xdata
       /\ Truthy(xdata)

-----------------------------------------------------------------------------
(* Properties of scroll_to_load_all *)

\* the count was equal to that of the round before in 3 rounds running
SettledCount ==
    /\ Len(recent) = 4
    /\ \A k \in 2..4 : recent[k] = recent[1]

ScrollOver == spc \in {"returned", "raised"}

\* C28: the function scrolls at most max_rounds times and begins at most
\* max_rounds rounds; once the count has settled it has returned, and it
\* did not scroll in the round that saw the count settle; and it always
\* comes to an end.
C28_ScrollTerminates ==
    /\ [](scrolls <= max_rounds /\ round_i <= max_rounds)
    /\ [](SettledCount => (spc = "returned" /\ scrolls = round_i - 1))
    /\ <>ScrollOver

C28_Witness ==
    /\ spc = "returned"
    /\ SettledCount
    /\ round_i < max_rounds
    /\ scrolls = round_i - 1
    /\ round_i > 4

====
